---------------------------- MODULE Spec2Model ----------------------------
(***************************************************************************)
(* A model of stencil.py: the compiler (Template.__init__, Template.parse, *)
(* Nodelist.__init__ and the block tags' parse methods), the value         *)
(* resolver (digattr, Context.resolve) and the renderer (the render        *)
(* methods of Template, Nodelist and the tags).                            *)
(*                                                                         *)
(* Python strings are sequences of one-character strings, so that split,   *)
(* strip and the \w+ match are computed as the code computes them.         *)
(* The code is Python 2 (unicode, __metaclass__): a StopIteration that     *)
(* escapes a generator's body ends that generator silently.                *)
(***************************************************************************)
EXTENDS Integers, Sequences, FiniteSets, TLC

VARIABLES
    template,   \* the source string handed to tokenise
    pc,         \* where the caller is: "new", "compiled", "raised", ...
    src,        \* the token stream of the source handed to Template(...)
    loader,     \* the loader bound to the Template: "None" or "bound"
    tmpl,       \* Template.__init__'s outcome: the node list, or the exception
    ctx,        \* the Context: its _stack, filters and output
    expr,       \* the expression handed to Context.resolve or digattr
    res,        \* what that call did
    sinks,      \* the StringIO objects made so far: their contents
    calls,      \* the render calls in progress, the innermost first
    ret,        \* what the outermost Template.render returned or raised
    written,    \* everything the text and variable nodes wrote, in order
    last,       \* the step just taken, with what it saw
    other,      \* a second render call on the same Template, while it waits
    alone,      \* what the render call returned when it ran alone
    turn        \* which of two interleaved render calls is running: 1 or 2

vars == <<template, pc, src, loader, tmpl, ctx, expr, res, sinks, calls, ret, written,
          last, other, alone, turn>>

compiler == <<template, src, loader, tmpl>>
resolver == <<expr, res>>
renderer == <<sinks, calls, ret, written, last>>
second == <<other, alone, turn>>

-----------------------------------------------------------------------------
(* Bounds *)

\* the longest source, in tokens
MaxTokens == 4
MaxRenderTokens == 3

\* the longest source of text, comments and for and if blocks, in tokens
MaxNestTokens == 6

\* the longest expression, in characters
MaxExprLen == 5

\* the longest source string, in characters
MaxSourceLen == 7

-----------------------------------------------------------------------------
(* Python strings *)

s_for == <<"f", "o", "r">>
s_endfor == <<"e", "n", "d", "f", "o", "r">>
s_if == <<"i", "f">>
s_endif == <<"e", "n", "d", "i", "f">>
s_include == <<"i", "n", "c", "l", "u", "d", "e">>
s_load == <<"l", "o", "a", "d">>
s_not == <<"n", "o", "t">>
s_in == <<" ", "i", "n", " ">>
s_loopcounter == <<"l", "o", "o", "p", "c", "o", "u", "n", "t", "e", "r">>

Letters == {"a", "b", "c", "d", "e", "f", "g", "h", "i", "j", "k", "l", "m",
            "n", "o", "p", "q", "r", "s", "t", "u", "v", "w", "x", "y", "z",
            "A", "B", "C", "D", "E", "F", "G", "H", "I", "J", "K", "L", "M",
            "N", "O", "P", "Q", "R", "S", "T", "U", "V", "W", "X", "Y", "Z"}
Digits == {"0", "1", "2", "3", "4", "5", "6", "7", "8", "9"}

\* the characters \w matches
WordChars == Letters \cup Digits \cup {"_"}

\* s + t
Cat(s, t) == s \o t

\* s[i:] with a 0-based i
From(s, i) == SubSeq(s, i + 1, Len(s))

\* s.startswith(p)
StartsWith(s, p) == Len(p) <= Len(s) /\ SubSeq(s, 1, Len(p)) = p

\* s.strip(): the leading and trailing whitespace removed
Strip(s) ==
    LET nonsp == {i \in 1..Len(s) : s[i] # " "}
    IN  IF nonsp = {} THEN <<>>
        ELSE SubSeq(s, CHOOSE i \in nonsp : \A j \in nonsp : i <= j,
                       CHOOSE i \in nonsp : \A j \in nonsp : j <= i)

\* s.find(sep): the 0-based offset of the first occurrence, -1 when none
Find(s, sep) ==
    LET hits == {i \in 0..(Len(s) - Len(sep)) : StartsWith(From(s, i), sep)}
    IN  IF hits = {} THEN -1 ELSE CHOOSE i \in hits : \A j \in hits : i <= j

\* s.split(sep, 1)
SplitOnce(s, sep) ==
    LET i == Find(s, sep)
    IN  IF i < 0 THEN <<s>>
        ELSE <<SubSeq(s, 1, i), From(s, i + Len(sep))>>

RECURSIVE Split(_, _)
\* s.split(sep)
Split(s, sep) ==
    LET i == Find(s, sep)
    IN  IF i < 0 THEN <<s>>
        ELSE <<SubSeq(s, 1, i)>> \o Split(From(s, i + Len(sep)), sep)

\* nodename_re.match(s): the length of the \w+ match at the start of s,
\* 0 when there is no match
NodenameMatch(s) ==
    LET stops == {i \in 1..Len(s) : s[i] \notin WordChars}
    IN  IF stops = {} THEN Len(s)
        ELSE (CHOOSE i \in stops : \A j \in stops : i <= j) - 1

-----------------------------------------------------------------------------
(* Tokens and nodes *)

TOK_COMMENT == "comment"
TOK_TEXT == "text"
TOK_VAR == "var"
TOK_BLOCK == "block"

Token(type, content) == [type |-> type, content |-> content]

\* the tag registry BlockMeta fills: tag name -> class
Tags ==
    (s_for :> "ForTag") @@ (s_endfor :> "EndforTag") @@ (s_if :> "IfTag") @@
    (s_endif :> "EndifTag") @@ (s_include :> "IncludeTag") @@
    (s_load :> "LoadTag")

NoName == <<"<", "N", "o", "n", "e", ">">>

\* a node's class attribute `name` (Node.name is None)
NodeName(node) ==
    CASE node.cls = "ForTag" -> s_for
      [] node.cls = "EndforTag" -> s_endfor
      [] node.cls = "IfTag" -> s_if
      [] node.cls = "EndifTag" -> s_endif
      [] node.cls = "IncludeTag" -> s_include
      [] node.cls = "LoadTag" -> s_load
      [] OTHER -> NoName

TextTag(content) == [cls |-> "TextTag", content |-> content]
VarTag(content) == [cls |-> "VarTag", content |-> content]
\* BlockNode.parse: cls(content), for the tags that do not override parse
BlockNode(cls, content) == [cls |-> cls, content |-> content]
ForTag(argname, iterable, nodelist) ==
    [cls |-> "ForTag", argname |-> argname, iterable |-> iterable,
     nodelist |-> nodelist]
IfTag(condition, nodelist) ==
    [cls |-> "IfTag", condition |-> condition, nodelist |-> nodelist]
IncludeTag(template_name, ldr) ==
    [cls |-> "IncludeTag", template_name |-> template_name, loader |-> ldr]

-----------------------------------------------------------------------------
(* The tokeniser.  Positions in a string are 1-based; a match is the span  *)
(* it covers, the alternative that matched and the text of its group.      *)

\* tag_re's three alternatives, by group name: the delimiters around
\* \s*(?P<name>.+?)\s*
tag_re ==
    (TOK_BLOCK :> [open |-> <<"{", "%">>, close |-> <<"%", "}">>]) @@
    (TOK_VAR :> [open |-> <<"{", "{">>, close |-> <<"}", "}">>]) @@
    (TOK_COMMENT :> [open |-> <<"{", "#">>, close |-> <<"#", "}">>])

\* whether t is in s at position p
At(s, p, t) ==
    /\ p >= 1
    /\ p + Len(t) - 1 <= Len(s)
    /\ SubSeq(s, p, p + Len(t) - 1) = t

\* \s* from position p on, taken greedily: the number of characters
SpaceRun(s, p) ==
    LET stops == {i \in p..Len(s) : s[i] # " "}
    IN  IF p > Len(s) THEN 0
        ELSE IF stops = {} THEN Len(s) - p + 1
        ELSE (CHOOSE i \in stops : \A j \in stops : i <= j) - p

\* (.+?)\s*close with the group beginning at position g: the position the
\* shortest group ends at such that whitespace and then the closing
\* delimiter follow it; 0 when there is none
GroupEnd(s, g, close) ==
    LET ends == {e \in g..Len(s) : At(s, e + 1 + SpaceRun(s, e + 1), close)}
    IN  IF ends = {} THEN 0
        ELSE CHOOSE e \in ends : \A f \in ends : e <= f

\* one alternative of tag_re tried at position p.  The \s* after the
\* opening delimiter is greedy and gives whitespace back only when nothing
\* matches after it.
AltMatch(s, p, mode) ==
    LET first == p + Len(tag_re[mode].open)
        ws == {w \in 0..SpaceRun(s, first) :
                  GroupEnd(s, first + w, tag_re[mode].close) > 0}
        Found(w, e) ==
            [ok |-> TRUE, start |-> p,
             end |-> e + SpaceRun(s, e + 1) + Len(tag_re[mode].close),
             lastgroup |-> mode, group |-> SubSeq(s, first + w, e)]
        Longest(w) == Found(w, GroupEnd(s, first + w, tag_re[mode].close))
    IN  IF ~At(s, p, tag_re[mode].open) \/ ws = {} THEN [ok |-> FALSE]
        ELSE Longest(CHOOSE w \in ws : \A v \in ws : v <= w)

\* tag_re tried at position p: the first alternative that matches
MatchAt(s, p) ==
    CASE AltMatch(s, p, TOK_BLOCK).ok -> AltMatch(s, p, TOK_BLOCK)
      [] AltMatch(s, p, TOK_VAR).ok -> AltMatch(s, p, TOK_VAR)
      [] OTHER -> AltMatch(s, p, TOK_COMMENT)

\* tag_re.finditer's next match, looked for from position p on
Search(s, p) ==
    LET hits == {q \in p..Len(s) : MatchAt(s, q).ok}
    IN  IF hits = {} THEN [ok |-> FALSE]
        ELSE MatchAt(s, CHOOSE q \in hits : \A r \in hits : q <= r)

\* a token, with the span of the source it was made from
Spanned(tok, start, end) == [tok |-> tok, start |-> start, end |-> end]

RECURSIVE TokeniseFrom_drop_tail(_, _, _)
\* TokeniseFrom without the text after the last match
TokeniseFrom_drop_tail(s, upto, acc) ==
    LET Step(m) ==
            IF ~m.ok THEN acc
            ELSE TokeniseFrom_drop_tail(s, m.end,
                    acc \o (IF upto < m.start - 1
                            THEN <<Spanned(Token(TOK_TEXT,
                                                 SubSeq(s, upto + 1, m.start - 1)),
                                           upto + 1, m.start - 1)>>
                            ELSE <<>>)
                        \o <<Spanned(Token(m.lastgroup, Strip(m.group)),
                                     m.start, m.end)>>)
    IN  Step(Search(s, upto + 1))

RECURSIVE TokeniseFrom(_, _, _)
\* tokenise's loop with `upto` characters of the source behind it, and
\* the text after the last match
TokeniseFrom(s, upto, acc) ==
    LET Step(m) ==
            IF ~m.ok
            THEN IF upto < Len(s)
                 THEN Append(acc, Spanned(Token(TOK_TEXT, From(s, upto)),
                                          upto + 1, Len(s)))
                 ELSE acc
            ELSE TokeniseFrom(s, m.end,
                    acc \o (IF upto < m.start - 1
                            THEN <<Spanned(Token(TOK_TEXT,
                                                 SubSeq(s, upto + 1, m.start - 1)),
                                           upto + 1, m.start - 1)>>
                            ELSE <<>>)
                        \o <<Spanned(Token(m.lastgroup, Strip(m.group)),
                                     m.start, m.end)>>)
    IN  Step(Search(s, upto + 1))

\* tokenise(template): the tokens in the order they are yielded
tokenise(s) == TokeniseFrom(s, 0, <<>>)

-----------------------------------------------------------------------------
(* The compiler.  `toks` is the source's token stream and `pos` the number *)
(* of tokens the shared iterator self.tokens has handed out so far.        *)

\* the outcomes of next(parser.parse()): a node, StopIteration, or another
\* exception
Yield(node, pos) == [st |-> "yield", node |-> node, pos |-> pos]
Stop(pos) == [st |-> "stop", pos |-> pos]
Raise(exc, arg, pos) == [st |-> "raise", exc |-> exc, arg |-> arg, pos |-> pos]

RECURSIVE Template_parse(_, _, _)
RECURSIVE Nodelist_init(_, _, _, _, _)

\* ForTag.parse: split the content, then collect the body up to endfor
ForTag_parse(content, toks, pos, ldr) ==
    LET parts == SplitOnce(content, s_in)
    IN  IF Len(parts) # 2 THEN Raise("ValueError", content, pos)
        ELSE LET nl == Nodelist_init(toks, pos, ldr, s_endfor, <<>>)
             IN  IF nl.st = "ok"
                 THEN Yield(ForTag(Strip(parts[1]), Strip(parts[2]), nl.nodes),
                            nl.pos)
                 ELSE nl

\* IfTag.parse: collect the body up to endif
IfTag_parse(content, toks, pos, ldr) ==
    LET nl == Nodelist_init(toks, pos, ldr, s_endif, <<>>)
    IN  IF nl.st = "ok" THEN Yield(IfTag(content, nl.nodes), nl.pos) ELSE nl

\* IncludeTag.parse without the assertion
IncludeTag_parse_unchecked(content, toks, pos, ldr) ==
    Yield(IncludeTag(content, ldr), pos)

\* IncludeTag.parse: the assertion on parser.loader
IncludeTag_parse(content, toks, pos, ldr) ==
    IF ldr = "None" THEN Raise("AssertionError", content, pos)
    ELSE Yield(IncludeTag(content, ldr), pos)

\* BlockNode.__tags__[name].parse(content, self)
TagParse(cls, content, toks, pos, ldr) ==
    CASE cls = "ForTag" -> ForTag_parse(content, toks, pos, ldr)
      [] cls = "IfTag" -> IfTag_parse(content, toks, pos, ldr)
      [] cls = "IncludeTag" -> IncludeTag_parse(content, toks, pos, ldr)
      [] OTHER -> Yield(BlockNode(cls, content), pos)

\* next(parser.parse()): a fresh generator over the shared token iterator,
\* run to its first yield.  An exception raised while the yielded value is
\* computed leaves through next(); a StopIteration among them is, to the
\* caller, the generator's own end.
Template_parse(toks, pos, ldr) ==
    IF pos >= Len(toks) THEN Stop(pos)
    ELSE LET token == toks[pos + 1]
         IN  CASE token.type = TOK_TEXT -> Yield(TextTag(token.content), pos + 1)
               [] token.type = TOK_VAR -> Yield(VarTag(token.content), pos + 1)
               [] token.type = TOK_BLOCK ->
                    LET n == NodenameMatch(token.content)
                        name == SubSeq(token.content, 1, n)
                    IN  IF n = 0 THEN Raise("SyntaxError", token.content, pos + 1)
                        ELSE IF name \notin DOMAIN Tags
                             THEN Raise("KeyError", name, pos + 1)
                        ELSE TagParse(Tags[name], Strip(From(token.content, n)),
                                      toks, pos + 1, ldr)
               [] OTHER -> Template_parse(toks, pos + 1, ldr)

RECURSIVE Nodelist_init_keep_end(_, _, _, _, _)
\* Nodelist.__init__ with the node named `end` appended as well
Nodelist_init_keep_end(toks, pos, ldr, end, acc) ==
    LET r == Template_parse(toks, pos, ldr)
    IN  IF r.st # "yield" THEN r
        ELSE IF NodeName(r.node) = end
             THEN [st |-> "ok", nodes |-> Append(acc, r.node), pos |-> r.pos]
        ELSE Nodelist_init_keep_end(toks, r.pos, ldr, end, Append(acc, r.node))

\* Nodelist.__init__: nodes are appended until one is named `end`; that one
\* is dropped.  `acc` is the list so far.
Nodelist_init(toks, pos, ldr, end, acc) ==
    LET r == Template_parse(toks, pos, ldr)
    IN  IF r.st # "yield" THEN r
        ELSE IF NodeName(r.node) = end
             THEN [st |-> "ok", nodes |-> acc, pos |-> r.pos]
        ELSE Nodelist_init(toks, r.pos, ldr, end, Append(acc, r.node))

RECURSIVE ListParse(_, _, _, _)
\* list(self.parse()): the nodes the top-level generator yields until it
\* ends; any exception but StopIteration leaves the constructor
ListParse(toks, pos, ldr, acc) ==
    LET r == Template_parse(toks, pos, ldr)
    IN  CASE r.st = "yield" -> ListParse(toks, r.pos, ldr, Append(acc, r.node))
          [] r.st = "stop" -> [st |-> "ok", nodes |-> acc, pos |-> r.pos]
          [] OTHER -> r

\* Template.__init__
Template_init(toks, ldr) == ListParse(toks, 0, ldr, <<>>)

NoTemplate == [st |-> "none"]
NoContext == [stack |-> <<>>, filters |-> <<>>, output |-> 0]
NoResult == [op |-> "none"]
NoStep == [ev |-> "none"]
NoRender == [pc |-> "none"]

-----------------------------------------------------------------------------
(* Values.  A Python value is a record tagged with its type.  The built-in *)
(* methods of the built-in types (list.pop, dict.keys, ...) are not        *)
(* attributes of the model's values; the names the model resolves are not  *)
(* theirs, except on the Context, whose members are modelled.              *)

None == [t |-> "None"]
IntV(n) == [t |-> "int", i |-> n]
StrV(s) == [t |-> "str", s |-> s]
ListV(l) == [t |-> "list", l |-> l]
\* a dict with string keys
DictV(d) == [t |-> "dict", d |-> d]
\* an object with items d (its __getitem__) and attributes a
ObjV(d, a) == [t |-> "obj", d |-> d, a |-> a]
\* a callable that takes n arguments and returns r
Fn(n, r) == [t |-> "fn", n |-> n, r |-> r]
\* a bound method of the Context
Method(m) == [t |-> "method", m |-> m]
\* the StringIO of a render call
Sink(id) == [t |-> "StringIO", id |-> id]
\* what the filter function f returns for v: filters are any unary
\* functions, so the result is the term f(v)
App(f, v) == [t |-> "app", f |-> f, v |-> v]
\* the Context itself, as the object digattr starts from
CtxRoot == [t |-> "Context"]

EmptyFrame == <<>>

Hit(v) == [ok |-> TRUE, v |-> v]
Miss == [ok |-> FALSE, v |-> None]

Min(S) == CHOOSE i \in S : \A j \in S : i <= j

\* Context.__getitem__: the innermost frame that has the key
Context_getitem(c, key) ==
    LET has == {i \in 1..Len(c.stack) : key \in DOMAIN c.stack[i]}
    IN  IF has = {} THEN Miss ELSE Hit(c.stack[Min(has)][key])

\* Context.push(**kwargs)
Context_push(c, frame) == [c EXCEPT !.stack = <<frame>> \o @]

\* Context.pop, on a stack that is not empty
Context_pop(c) == [c EXCEPT !.stack = Tail(@)]

\* Context.__setitem__, on a stack that is not empty
Context_setitem(c, key, value) ==
    [c EXCEPT !.stack[1] = (key :> value) @@ @]

s_push == <<"p", "u", "s", "h">>
s_pop == <<"p", "o", "p">>
s_resolve == <<"r", "e", "s", "o", "l", "v", "e">>
s_filters == <<"f", "i", "l", "t", "e", "r", "s">>
s_stack == <<"_", "s", "t", "a", "c", "k">>
s_output == <<"o", "u", "t", "p", "u", "t">>

\* getattr(context, step): the Context's methods and instance attributes
\* (output exists once a render has set it; 0 stands for not set)
Context_getattr(c, step) ==
    CASE step \in {s_push, s_pop, s_resolve} -> Hit(Method(step))
      [] step = s_filters ->
            Hit(DictV([k \in DOMAIN c.filters |-> Fn(1, None)]))
      [] step = s_stack ->
            Hit(ListV([i \in 1..Len(c.stack) |-> DictV(c.stack[i])]))
      [] step = s_output /\ c.output # 0 -> Hit(Sink(c.output))
      [] OTHER -> Miss

\* obj[step]: a miss stands for the TypeError, AttributeError or KeyError
\* that line 28 catches
GetItem(obj, step, c) ==
    CASE obj.t = "Context" -> Context_getitem(c, step)
      [] obj.t \in {"dict", "obj"} ->
            IF step \in DOMAIN obj.d THEN Hit(obj.d[step]) ELSE Miss
      [] OTHER -> Miss

\* getattr(obj, step): a miss stands for the AttributeError line 31 catches
GetAttr(obj, step, c) ==
    CASE obj.t = "Context" -> Context_getattr(c, step)
      [] obj.t = "obj" ->
            IF step \in DOMAIN obj.a THEN Hit(obj.a[step]) ELSE Miss
      [] OTHER -> Miss

DigitVal ==
    ("0" :> 0) @@ ("1" :> 1) @@ ("2" :> 2) @@ ("3" :> 3) @@ ("4" :> 4) @@
    ("5" :> 5) @@ ("6" :> 6) @@ ("7" :> 7) @@ ("8" :> 8) @@ ("9" :> 9)

RECURSIVE DigitsValue(_, _)
DigitsValue(s, acc) ==
    IF s = <<>> THEN acc
    ELSE DigitsValue(Tail(s), (10 * acc) + DigitVal[Head(s)])

\* int(step) for a string of digits; -1 stands for the ValueError
ParseInt(step) ==
    IF step # <<>> /\ \A i \in 1..Len(step) : step[i] \in Digits
    THEN DigitsValue(step, 0)
    ELSE -1

\* obj[int(step)]: a miss stands for the IndexError, ValueError, KeyError
\* or TypeError that line 34 catches
GetIndex(obj, step, c) ==
    LET n == ParseInt(step)
    IN  CASE n < 0 -> Miss
          [] obj.t = "list" -> IF n < Len(obj.l) THEN Hit(obj.l[n + 1]) ELSE Miss
          [] obj.t = "str" ->
                IF n < Len(obj.s) THEN Hit(StrV(<<obj.s[n + 1]>>)) ELSE Miss
          [] OTHER -> Miss

\* DigStep with the attribute tried before the item
DigStep_attr_first(obj, step, c) ==
    LET item == GetItem(obj, step, c)
        attr == GetAttr(obj, step, c)
        index == GetIndex(obj, step, c)
    IN  IF attr.ok THEN [mode |-> "attr", v |-> attr.v]
        ELSE IF item.ok THEN [mode |-> "item", v |-> item.v]
        ELSE IF index.ok THEN [mode |-> "index", v |-> index.v]
        ELSE [mode |-> "miss", v |-> None]

\* one step of digattr's loop, lines 26-35: the access that wins
DigStep(obj, step, c) ==
    LET item == GetItem(obj, step, c)
        attr == GetAttr(obj, step, c)
        index == GetIndex(obj, step, c)
    IN  IF item.ok THEN [mode |-> "item", v |-> item.v]
        ELSE IF attr.ok THEN [mode |-> "attr", v |-> attr.v]
        ELSE IF index.ok THEN [mode |-> "index", v |-> index.v]
        ELSE [mode |-> "miss", v |-> None]

\* callable(obj)
Callable(v) == v.t \in {"fn", "method"}

\* obj(): the call with no arguments, and what it does to the Context
Invoke(v, c) ==
    CASE v.t = "fn" /\ v.n = 0 -> [st |-> "ok", v |-> v.r, c |-> c]
      [] v.t = "method" /\ v.m = s_push ->
            [st |-> "ok", v |-> None, c |-> Context_push(c, EmptyFrame)]
      [] v.t = "method" /\ v.m = s_pop /\ c.stack # <<>> ->
            [st |-> "ok", v |-> None, c |-> Context_pop(c)]
      [] v.t = "method" /\ v.m = s_pop ->
            [st |-> "raise", exc |-> "IndexError", c |-> c]
      [] OTHER -> [st |-> "raise", exc |-> "TypeError", c |-> c]

RECURSIVE DigLoop(_, _, _, _, _)
\* digattr's loop over the steps left.  `trace` records, for each step
\* taken, the object it was taken on, the step and the access that won.
DigLoop(obj, steps, default, c, trace) ==
    IF steps = <<>> THEN [st |-> "ok", v |-> obj, c |-> c, trace |-> trace]
    ELSE LET r == DigStep(obj, Head(steps), c)
             t2 == Append(trace, [obj |-> obj, step |-> Head(steps),
                                  mode |-> r.mode, c |-> c])
         IN  IF r.mode = "miss"
             THEN [st |-> "ok", v |-> default, c |-> c, trace |-> t2]
             ELSE IF ~Callable(r.v)
                  THEN DigLoop(r.v, Tail(steps), default, c, t2)
             ELSE LET call == Invoke(r.v, c)
                  IN  IF call.st = "raise"
                      THEN [st |-> "raise", exc |-> call.exc, arg |-> <<>>,
                            c |-> call.c, trace |-> t2]
                      ELSE DigLoop(call.v, Tail(steps), default, call.c, t2)

\* digattr(obj, attr, default)
digattr(obj, attr, default, c) ==
    DigLoop(obj, Split(attr, <<".">>), default, c, <<>>)

RECURSIVE FilterLoop_skip_unknown(_, _, _, _, _)
\* FilterLoop with an unknown filter skipped instead of raised
FilterLoop_skip_unknown(parts, value, c, expression, applied) ==
    IF parts = <<>>
    THEN [st |-> "ok", v |-> value, c |-> c, applied |-> applied]
    ELSE LET filt == Head(parts)
         IN  IF filt \notin DOMAIN c.filters
             THEN FilterLoop_skip_unknown(Tail(parts), value, c, expression,
                                          applied)
             ELSE FilterLoop_skip_unknown(Tail(parts),
                                          App(c.filters[filt], value), c,
                                          expression, Append(applied, filt))

RECURSIVE FilterLoop(_, _, _, _, _)
\* Context.resolve's loop over the filter names left, lines 102-108;
\* `applied` records the filters called so far
FilterLoop(parts, value, c, expression, applied) ==
    IF parts = <<>>
    THEN [st |-> "ok", v |-> value, c |-> c, applied |-> applied]
    ELSE LET filt == Head(parts)
         IN  IF filt \notin DOMAIN c.filters
             THEN [st |-> "raise", exc |-> "SyntaxError",
                   arg |-> <<filt, expression>>, c |-> c, applied |-> applied]
             ELSE FilterLoop(Tail(parts), App(c.filters[filt], value), c,
                             expression, Append(applied, filt))

Reverse(q) == [i \in 1..Len(q) |-> q[Len(q) + 1 - i]]

\* Context.resolve with the filters taken right to left
Context_resolve_right_to_left(c, expression) ==
    LET parts == Split(expression, <<"|">>)
        Filtered(base) ==
            IF base.st = "raise"
            THEN [st |-> "raise", exc |-> base.exc, arg |-> base.arg,
                  c |-> base.c, applied |-> <<>>]
            ELSE FilterLoop(Reverse(Tail(parts)), base.v, base.c, expression,
                            <<>>)
    IN  Filtered(digattr(CtxRoot, Head(parts), None, c))

\* Context.resolve(expr)
Context_resolve(c, expression) ==
    LET parts == Split(expression, <<"|">>)
        Filtered(base) ==
            IF base.st = "raise"
            THEN [st |-> "raise", exc |-> base.exc, arg |-> base.arg,
                  c |-> base.c, applied |-> <<>>]
            ELSE FilterLoop(Tail(parts), base.v, base.c, expression, <<>>)
    IN  Filtered(digattr(CtxRoot, Head(parts), None, c))

-----------------------------------------------------------------------------
(* The renderer's helpers *)

RECURSIVE NatToStr(_)
\* unicode(n) for n >= 0
NatToStr(n) ==
    LET d == CHOOSE ch \in Digits : DigitVal[ch] = n % 10
    IN  IF n < 10 THEN <<d>> ELSE Append(NatToStr(n \div 10), d)

RECURSIVE Unicode(_)
\* unicode(value), VarTag.render.  The text of a list, dict, object,
\* function or stream is one opaque character; f(v) prints as written.
Unicode(v) ==
    CASE v.t = "None" -> <<"N", "o", "n", "e">>
      [] v.t = "int" -> NatToStr(v.i)
      [] v.t = "str" -> v.s
      [] v.t = "app" -> <<v.f, "(">> \o Unicode(v.v) \o <<")">>
      [] OTHER -> <<v.t>>

\* bool(value), IfTag.test_condition
Truthy(v) ==
    CASE v.t = "None" -> FALSE
      [] v.t = "int" -> v.i # 0
      [] v.t = "str" -> v.s # <<>>
      [] v.t = "list" -> v.l # <<>>
      [] v.t = "dict" -> DOMAIN v.d # {}
      [] OTHER -> TRUE

RECURSIVE SetToSeq(_)
SetToSeq(S) ==
    IF S = {} THEN <<>>
    ELSE LET x == CHOOSE x \in S : TRUE IN <<x>> \o SetToSeq(S \ {x})

\* whether enumerate(value) raises no TypeError
Iterable(v) == v.t \in {"list", "str", "dict"}

\* the elements enumerate(value) goes through (a dict's keys, in the
\* dict's own order)
Items(v) ==
    CASE v.t = "list" -> v.l
      [] v.t = "str" -> [i \in 1..Len(v.s) |-> StrV(<<v.s[i]>>)]
      [] OTHER -> [i \in 1..Len(SetToSeq(DOMAIN v.d)) |->
                     StrV(SetToSeq(DOMAIN v.d)[i])]

\* ForTag.render, lines 216-217: context['loopcounter'] = idx and
\* context[self.argname] = item
ForTag_bind(c, argname, idx, item) ==
    Context_setitem(Context_setitem(c, s_loopcounter, IntV(idx)), argname, item)

\* IfTag.test_condition: the truth value, or the exception
IfTag_test_condition(c, condition) ==
    LET parts == SplitOnce(condition, <<" ">>)
        inv == Strip(parts[1]) = s_not
        Test(r) ==
            IF r.st = "raise" THEN r
            ELSE [st |-> "ok", v |-> (inv # Truthy(r.v)), c |-> r.c]
    IN  IF inv /\ Len(parts) < 2
        THEN [st |-> "raise", exc |-> "IndexError", arg |-> <<>>, c |-> c]
        ELSE Test(Context_resolve(c, IF inv THEN Strip(parts[2])
                                            ELSE condition))

\* the templates the loader finds, by name: their token streams
LoaderFiles ==
    (<<"s">> :> <<Token(TOK_TEXT, <<"B">>), Token(TOK_VAR, <<"x">>)>>) @@
    (<<"p">> :> <<Token(TOK_VAR, <<"p", "o", "p">>)>>)

\* TemplateLoader.__getitem__ / __missing__ / load: the compiled Template,
\* or None for a name that is no file
Loader_getitem(name) ==
    IF name \in DOMAIN LoaderFiles
    THEN Template_init(LoaderFiles[name], "bound")
    ELSE [st |-> "None"]

\* WriteTarget with one sink for every render call
WriteTarget_first_sink(act, c) == 1

\* the sink `context.output.write` (Nodelist.render) or `output.write`
\* (Template.render) names, taken before node.render(context) runs
WriteTarget(act, c) == IF act.k = "Template" THEN act.output ELSE c.output

\* stream.write(text)
Write(sk, id, text) == [sk EXCEPT ![id] = @ \o text]

\* the caller's loop goes on to its next node
Advance(cs) == <<[Head(cs) EXCEPT !.i = @ + 1]>> \o Tail(cs)

-----------------------------------------------------------------------------
(* Sources *)

t_text == Token(TOK_TEXT, <<"A">>)
t_var == Token(TOK_VAR, <<"x">>)
t_comment == Token(TOK_COMMENT, <<"c">>)
t_for == Token(TOK_BLOCK, <<"f", "o", "r", " ", "x", " ", "i", "n", " ", "x", "s">>)
t_forbad == Token(TOK_BLOCK, <<"f", "o", "r", " ", "x">>)
t_endfor == Token(TOK_BLOCK, s_endfor)
t_if == Token(TOK_BLOCK, <<"i", "f", " ", "x">>)
t_endif == Token(TOK_BLOCK, s_endif)
t_include == Token(TOK_BLOCK, <<"i", "n", "c", "l", "u", "d", "e", " ", "s">>)
t_load == Token(TOK_BLOCK, <<"l", "o", "a", "d", " ", "m">>)
t_bogus == Token(TOK_BLOCK, <<"b", "o", "g", "u", "s">>)
t_noname == Token(TOK_BLOCK, <<"|">>)

\* the tokens the compiler is run on
ParseTokens ==
    {t_text, t_var, t_comment, t_for, t_forbad, t_endfor, t_if, t_endif,
     t_include, t_load, t_bogus, t_noname}

\* the tokens of the longer sources: text, comments and the compound tags
NestTokens == {t_text, t_comment, t_for, t_endfor, t_if, t_endif}

\* every sequence over S of at most n elements
SeqsUpTo(S, n) == UNION {[1..k -> S] : k \in 0..n}

HasToken(toks, t) == \E i \in 1..Len(toks) : toks[i] = t

-----------------------------------------------------------------------------
(* The tokeniser's state machine: a source string is handed to tokenise *)

SourceChars == {"{", "}", "%", "#", " "}

InitTokenise ==
    /\ pc = "source"
    /\ template \in SeqsUpTo(SourceChars, MaxSourceLen)
    /\ src = <<>>
    /\ loader = "bound"
    /\ tmpl = NoTemplate
    /\ ctx = NoContext
    /\ expr = <<>>
    /\ res = NoResult
    /\ sinks = <<>>
    /\ calls = <<>>
    /\ ret = NoResult
    /\ written = <<>>
    /\ last = NoStep
    /\ other = NoRender
    /\ alone = NoResult
    /\ turn = 0

\* list(tokenise(template))
Tokenise ==
    /\ pc = "source"
    /\ pc' = "tokenised"
    /\ res' = [op |-> "tokenise", out |-> tokenise(template)]
    /\ src' = [i \in 1..Len(res'.out) |-> res'.out[i].tok]
    /\ UNCHANGED <<template, loader, tmpl, ctx, expr, renderer, second>>

NextTokenise == Tokenise

SpecTokenise == InitTokenise /\ [][NextTokenise]_vars

-----------------------------------------------------------------------------
(* The compiler's state machine: a source is handed to Template(src, loader) *)

InitParse ==
    /\ pc = "new"
    /\ template = <<>>
    /\ src \in SeqsUpTo(ParseTokens, MaxTokens) \cup SeqsUpTo(NestTokens, MaxNestTokens)
    /\ loader \in {"None", "bound"}
    /\ (~HasToken(src, t_include) => loader = "bound")
    /\ tmpl = NoTemplate
    /\ ctx = NoContext
    /\ expr = <<>>
    /\ res = NoResult
    /\ sinks = <<>>
    /\ calls = <<>>
    /\ ret = NoResult
    /\ written = <<>>
    /\ last = NoStep
    /\ other = NoRender
    /\ alone = NoResult
    /\ turn = 0

\* tmpl = Template(src, loader)
Construct ==
    /\ pc = "new"
    /\ tmpl' = Template_init(src, loader)
    /\ pc' = IF tmpl'.st = "ok" THEN "compiled" ELSE "raised"
    /\ UNCHANGED <<template, src, loader, ctx, resolver, renderer, second>>

NextParse == Construct

SpecParse == InitParse /\ [][NextParse]_vars

-----------------------------------------------------------------------------
(* The resolver's state machine: an expression is handed to                *)
(* Context.resolve, or to digattr with some root object and default.       *)

ExprChars == {"a", "b", "0", "1", ".", "|"}

ContextMembers == {s_push, s_pop, s_resolve, s_filters, s_stack, s_output}

\* every expression of at most MaxExprLen characters, and the names of the
\* Context's members, alone and followed by a known and an unknown filter
Exprs ==
    SeqsUpTo(ExprChars, MaxExprLen) \cup ContextMembers
    \cup {Cat(m, <<"|", "a">>) : m \in ContextMembers}
    \cup {Cat(m, <<"|", "0">>) : m \in ContextMembers}

\* an object whose item b shadows its attribute b, and whose attribute a
\* is a method without parameters
TheObject ==
    ObjV((<<"b">> :> StrV(<<"m">>)),
         (<<"b">> :> StrV(<<"t">>)) @@ (<<"a">> :> Fn(0, StrV(<<"c">>)))
           @@ (<<"0">> :> StrV(<<"z">>)))

\* a list whose one element is a dict with the key "0"
TheList == ListV(<<DictV((<<"0">> :> StrV(<<"k">>)) @@ (<<"a">> :> None))>>)

\* Context({...}) with an inner frame pushed: a is defined in both frames,
\* b, 0 and 1 in the outer one; 1 is a function of one argument
ResolveContext ==
    [stack |-> << (<<"a">> :> TheObject),
                  (<<"a">> :> IntV(7)) @@ (<<"b">> :> TheList)
                    @@ (<<"0">> :> StrV(<<>>)) @@ (<<"1">> :> Fn(1, None)) >>,
     filters |-> (<<"a">> :> "A") @@ (<<"b">> :> "B"),
     output |-> 0]

Roots == {CtxRoot, TheObject, TheList}
Defaults == {None, StrV(<<"d">>)}

InitResolve ==
    /\ pc = "new"
    /\ template = <<>>
    /\ src = <<>>
    /\ loader = "bound"
    /\ tmpl = NoTemplate
    /\ ctx = ResolveContext
    /\ expr \in Exprs
    /\ res = NoResult
    /\ sinks = <<>>
    /\ calls = <<>>
    /\ ret = NoResult
    /\ written = <<>>
    /\ last = NoStep
    /\ other = NoRender
    /\ alone = NoResult
    /\ turn = 0

\* context.resolve(expr)
Resolve ==
    /\ pc = "new"
    /\ LET out == Context_resolve(ctx, expr)
       IN  /\ res' = [op |-> "resolve", out |-> out, c0 |-> ctx]
           /\ ctx' = out.c
    /\ pc' = "resolved"
    /\ UNCHANGED <<compiler, expr, renderer, second>>

\* digattr(obj, expr, default)
Digattr ==
    /\ pc = "new"
    /\ \E obj \in Roots, default \in Defaults :
          LET out == digattr(obj, expr, default, ctx)
          IN  /\ res' = [op |-> "digattr", out |-> out, c0 |-> ctx,
                         obj |-> obj, default |-> default]
              /\ ctx' = out.c
    /\ pc' = "dug"
    /\ UNCHANGED <<compiler, expr, renderer, second>>

NextResolve == Resolve \/ Digattr

SpecResolve == InitResolve /\ [][NextResolve]_vars

-----------------------------------------------------------------------------
(* The renderer's state machine.  A source is compiled with a loader bound *)
(* and rendered with a fresh Context; each step renders one node, or       *)
(* enters or leaves one of the nested render calls.  An exception leaves   *)
(* through every call in progress: nothing in the code catches it.         *)

r_text == Token(TOK_TEXT, <<"A">>)
r_x == Token(TOK_VAR, <<"x">>)
r_loopcounter == Token(TOK_VAR, s_loopcounter)
r_pop == Token(TOK_VAR, s_pop)
r_push == Token(TOK_VAR, s_push)
r_filter == Token(TOK_VAR, <<"x", "|", "f">>)
r_nofilter == Token(TOK_VAR, <<"x", "|", "q">>)
r_for == Token(TOK_BLOCK, <<"f", "o", "r", " ", "x", " ", "i", "n", " ", "x", "s">>)
r_forempty == Token(TOK_BLOCK, <<"f", "o", "r", " ", "x", " ", "i", "n", " ", "e">>)
r_fornone == Token(TOK_BLOCK, <<"f", "o", "r", " ", "x", " ", "i", "n", " ", "u">>)
r_if == Token(TOK_BLOCK, <<"i", "f", " ", "x">>)
r_ifnot == Token(TOK_BLOCK, <<"i", "f", " ", "n", "o", "t", " ", "x">>)
r_ifu == Token(TOK_BLOCK, <<"i", "f", " ", "u">>)
r_ifnotu == Token(TOK_BLOCK, <<"i", "f", " ", "n", "o", "t", " ", "u">>)
r_ifpop == Token(TOK_BLOCK, <<"i", "f", " ", "p", "o", "p">>)
r_include == Token(TOK_BLOCK, <<"i", "n", "c", "l", "u", "d", "e", " ", "s">>)
r_includepop == Token(TOK_BLOCK, <<"i", "n", "c", "l", "u", "d", "e", " ", "p">>)

\* the tokens of the sources that are rendered
RenderTokens ==
    {r_text, r_x, r_loopcounter, r_pop, r_push, r_filter, r_nofilter,
     r_for, r_forempty, r_fornone, t_endfor,
     r_if, r_ifnot, r_ifu, r_ifnotu, r_ifpop, t_endif, r_include,
     r_includepop}

\* the Context the caller makes: Context(data, filters)
RenderContext ==
    [stack |-> << (<<"x">> :> StrV(<<"o">>))
                    @@ (<<"x", "s">> :> ListV(<<StrV(<<"a">>), StrV(<<"b">>)>>))
                    @@ (<<"e">> :> ListV(<<>>)) >>,
     filters |-> (<<"f">> :> "F"),
     output |-> 0]

Init ==
    /\ pc = "new"
    /\ template = <<>>
    /\ src \in SeqsUpTo(RenderTokens, MaxRenderTokens)
    /\ loader = "bound"
    /\ tmpl = NoTemplate
    /\ ctx = RenderContext
    /\ expr = <<>>
    /\ res = NoResult
    /\ sinks = <<>>
    /\ calls = <<>>
    /\ ret = NoResult
    /\ written = <<>>
    /\ last = NoStep
    /\ other = NoRender
    /\ alone = NoResult
    /\ turn = 0

\* the call in progress and the node its loop is at
Top == Head(calls)
InLoop == calls # <<>> /\ Top.k \in {"Template", "Nodelist"}
AtNode(cls) == InLoop /\ Top.i <= Len(Top.nodes) /\ Top.nodes[Top.i].cls = cls
Node == Top.nodes[Top.i]

\* an exception leaves the outermost render; the Context stays as it is
Raised(exc, c, at) ==
    /\ pc' = "raised"
    /\ ctx' = c
    /\ calls' = <<>>
    /\ ret' = [st |-> "raise", exc |-> exc]
    /\ last' = at
    /\ UNCHANGED <<sinks, written>>

\* tmpl.render(Context(data, filters)): Template.render up to its loop
Render ==
    /\ pc = "compiled"
    /\ pc' = "rendering"
    /\ sinks' = Append(sinks, <<>>)
    /\ ctx' = [ctx EXCEPT !.output = Len(sinks) + 1]
    /\ calls' = <<[k |-> "Template", nodes |-> tmpl.nodes, i |-> 1,
                   output |-> Len(sinks) + 1, target |-> 0]>>
    /\ last' = [ev |-> "render"]
    /\ UNCHANGED <<compiler, resolver, second, ret, written>>

\* TextTag.render, and the write of what it returns
RenderText ==
    /\ pc = "rendering"
    /\ AtNode("TextTag")
    /\ sinks' = Write(sinks, WriteTarget(Top, ctx), Node.content)
    /\ written' = written \o Node.content
    /\ calls' = Advance(calls)
    /\ last' = [ev |-> "text"]
    /\ UNCHANGED <<pc, compiler, ctx, resolver, second, ret>>

\* VarTag.render, and the write of what it returns
RenderVar ==
    /\ pc = "rendering"
    /\ AtNode("VarTag")
    /\ \E r \in {Context_resolve(ctx, Node.content)} :
       LET target == WriteTarget(Top, ctx)
       IN  IF r.st = "raise"
           THEN Raised(r.exc, r.c, [ev |-> "raise", cls |-> "VarTag",
                                    c0 |-> ctx, expr |-> Node.content])
           ELSE /\ sinks' = Write(sinks, target, Unicode(r.v))
                /\ written' = written \o Unicode(r.v)
                /\ ctx' = r.c
                /\ calls' = Advance(calls)
                /\ last' = [ev |-> "var", c0 |-> ctx, expr |-> Node.content]
                /\ UNCHANGED <<pc, ret>>
    /\ UNCHANGED <<compiler, resolver, second>>

\* Node.render, of the tags that define no render of their own (a stray
\* endfor or endif that the compiler kept as a node): ''
RenderMarker ==
    /\ pc = "rendering"
    /\ (AtNode("EndforTag") \/ AtNode("EndifTag"))
    /\ calls' = Advance(calls)
    /\ last' = [ev |-> "marker"]
    /\ UNCHANGED <<pc, compiler, ctx, resolver, second, sinks, ret, written>>

\* ForTag.render up to its loop: resolve the iterable, push a frame,
\* enumerate
ForEnter ==
    /\ pc = "rendering"
    /\ AtNode("ForTag")
    /\ \E r \in {Context_resolve(ctx, Node.iterable)} :
       LET target == WriteTarget(Top, ctx)
           pushed == Context_push(r.c, EmptyFrame)
       IN  IF r.st = "raise"
           THEN Raised(r.exc, r.c, [ev |-> "raise", cls |-> "ForTag",
                                    c0 |-> ctx, expr |-> Node.iterable])
           ELSE IF ~Iterable(r.v)
           THEN Raised("TypeError", pushed,
                       [ev |-> "raise", cls |-> "ForTag", c0 |-> ctx,
                        expr |-> Node.iterable])
           ELSE /\ ctx' = pushed
                /\ calls' = <<[k |-> "For", node |-> Node, items |-> Items(r.v),
                               idx |-> 0, stack0 |-> ctx.stack,
                               written0 |-> written, passes |-> <<>>]>>
                             \o <<[Top EXCEPT !.target = target]>> \o Tail(calls)
                /\ last' = [ev |-> "for"]
                /\ UNCHANGED <<pc, sinks, ret, written>>
    /\ UNCHANGED <<compiler, resolver, second>>

\* nodelist.render(context) begins
NodelistCall(nodes) == [k |-> "Nodelist", nodes |-> nodes, i |-> 1, target |-> 0]

\* the value a render call returns goes to the sink its caller named, and
\* the caller's loop goes on
Return(cs, text) ==
    /\ sinks' = Write(sinks, Head(cs).target, text)
    /\ calls' = Advance(cs)

\* one pass of ForTag.render's loop: bind loopcounter and the loop
\* variable, call nodelist.render
ForPass ==
    /\ pc = "rendering"
    /\ calls # <<>> /\ Top.k = "For" /\ Top.idx < Len(Top.items)
    /\ IF ctx.stack = <<>>
       THEN Raised("IndexError", ctx, [ev |-> "raise", cls |-> "ForTag",
                                       c0 |-> ctx, expr |-> <<>>])
       ELSE LET bound == ForTag_bind(ctx, Top.node.argname, Top.idx,
                                     Top.items[Top.idx + 1])
            IN  /\ ctx' = bound
                /\ calls' = <<NodelistCall(Top.node.nodelist)>>
                             \o <<[Top EXCEPT !.idx = @ + 1,
                                              !.passes = Append(@, bound.stack[1])]>>
                             \o Tail(calls)
                /\ last' = [ev |-> "pass", stack0 |-> ctx.stack]
                /\ UNCHANGED <<pc, sinks, ret, written>>
    /\ UNCHANGED <<compiler, resolver, second>>

\* ForTag.render after its loop: pop the frame, return ''
ForExit ==
    /\ pc = "rendering"
    /\ calls # <<>> /\ Top.k = "For" /\ Top.idx = Len(Top.items)
    /\ IF ctx.stack = <<>>
       THEN Raised("IndexError", ctx, [ev |-> "raise", cls |-> "ForTag",
                                       c0 |-> ctx, expr |-> <<>>])
       ELSE /\ ctx' = Context_pop(ctx)
            /\ Return(Tail(calls), <<>>)
            /\ last' = [ev |-> "forexit", node |-> Top.node, items |-> Top.items,
                        stack0 |-> Top.stack0, passes |-> Top.passes,
                        written0 |-> Top.written0]
            /\ UNCHANGED <<pc, ret, written>>
    /\ UNCHANGED <<compiler, resolver, second>>

\* Nodelist.render returns, to ForTag.render or IfTag.render
NodelistExit ==
    /\ pc = "rendering"
    /\ calls # <<>> /\ Top.k = "Nodelist" /\ Top.i > Len(Top.nodes)
    /\ calls' = Tail(calls)
    /\ last' = [ev |-> "listexit"]
    /\ UNCHANGED <<pc, compiler, ctx, resolver, second, sinks, ret, written>>

\* IfTag.render: test the condition, call nodelist.render or return ''
IfEnter ==
    /\ pc = "rendering"
    /\ AtNode("IfTag")
    /\ \E r \in {IfTag_test_condition(ctx, Node.condition)} :
       LET target == WriteTarget(Top, ctx)
           at == [cls |-> "IfTag", c0 |-> ctx, expr |-> Node.condition]
       IN  IF r.st = "raise"
           THEN Raised(r.exc, r.c, [ev |-> "raise"] @@ at)
           ELSE /\ ctx' = r.c
                /\ last' = [ev |-> "if", taken |-> r.v] @@ at
                /\ IF r.v
                   THEN /\ calls' = <<NodelistCall(Node.nodelist), [k |-> "If"]>>
                                     \o <<[Top EXCEPT !.target = target]>>
                                     \o Tail(calls)
                        /\ UNCHANGED sinks
                   ELSE Return(<<[Top EXCEPT !.target = target]>> \o Tail(calls),
                               <<>>)
                /\ UNCHANGED <<pc, ret, written>>
    /\ UNCHANGED <<compiler, resolver, second>>

\* IfTag.render returns '' after its body
IfExit ==
    /\ pc = "rendering"
    /\ calls # <<>> /\ Top.k = "If"
    /\ Return(Tail(calls), <<>>)
    /\ last' = [ev |-> "ifexit"]
    /\ UNCHANGED <<pc, compiler, ctx, resolver, second, ret, written>>

\* IncludeTag.render up to the sub-template's loop: look the template up,
\* push a frame, and Template.render makes its own sink
IncludeEnter ==
    /\ pc = "rendering"
    /\ AtNode("IncludeTag")
    /\ \E sub \in {Loader_getitem(Node.template_name)} :
       LET target == WriteTarget(Top, ctx)
           pushed == Context_push(ctx, EmptyFrame)
           at == [ev |-> "raise", cls |-> "IncludeTag", c0 |-> ctx,
                  expr |-> <<>>]
       IN  IF sub.st = "raise" THEN Raised(sub.exc, ctx, at)
           ELSE IF sub.st = "None" THEN Raised("AttributeError", pushed, at)
           ELSE /\ sinks' = Append(sinks, <<>>)
                /\ ctx' = [pushed EXCEPT !.output = Len(sinks) + 1]
                /\ calls' = <<[k |-> "Template", nodes |-> sub.nodes, i |-> 1,
                               output |-> Len(sinks) + 1, target |-> 0],
                              [k |-> "Include", stack0 |-> ctx.stack]>>
                             \o <<[Top EXCEPT !.target = target]>> \o Tail(calls)
                /\ last' = [ev |-> "include", node |-> Node,
                             stack0 |-> ctx.stack]
                /\ UNCHANGED <<pc, ret, written>>
    /\ UNCHANGED <<compiler, resolver, second>>

\* the sub-template's Template.render returns its sink's value, and
\* IncludeTag.render pops the frame and returns that value
IncludeExit ==
    /\ pc = "rendering"
    /\ calls # <<>> /\ Top.k = "Template" /\ Top.i > Len(Top.nodes)
    /\ Len(calls) > 1
    /\ IF ctx.stack = <<>>
       THEN Raised("IndexError", ctx, [ev |-> "raise", cls |-> "IncludeTag",
                                       c0 |-> ctx, expr |-> <<>>])
       ELSE /\ ctx' = Context_pop(ctx)
            /\ Return(Tail(Tail(calls)), sinks[Top.output])
            /\ last' = [ev |-> "includeexit", stack0 |-> calls[2].stack0]
            /\ UNCHANGED <<pc, ret, written>>
    /\ UNCHANGED <<compiler, resolver, second>>

\* the outermost Template.render returns output.getvalue()
RenderReturn ==
    /\ pc = "rendering"
    /\ calls # <<>> /\ Top.k = "Template" /\ Top.i > Len(Top.nodes)
    /\ Len(calls) = 1
    /\ pc' = "done"
    /\ ret' = [st |-> "ok", v |-> sinks[Top.output]]
    /\ calls' = <<>>
    /\ last' = [ev |-> "return"]
    /\ UNCHANGED <<compiler, ctx, resolver, second, sinks, written>>

Next ==
    \/ Construct
    \/ Render
    \/ RenderText
    \/ RenderVar
    \/ RenderMarker
    \/ ForEnter
    \/ ForPass
    \/ ForExit
    \/ NodelistExit
    \/ IfEnter
    \/ IfExit
    \/ IncludeEnter
    \/ IncludeExit
    \/ RenderReturn

Spec == Init /\ [][Next]_vars

-----------------------------------------------------------------------------
(* Two render calls on one compiled Template, each with its own Context.   *)
(* The Template is first rendered by one call alone; then two calls are    *)
(* made, and the one that runs may change between any two nodes.           *)

\* the tokens of the sources that two calls render
InterleaveTokens ==
    {r_for, t_endfor, r_if, t_endif, r_include}

\* the Context of the second call, when it is not one like the first's
OtherContext ==
    [stack |-> << (<<"x">> :> StrV(<<"p">>))
                    @@ (<<"x", "s">> :> ListV(<<StrV(<<"c">>)>>)) >>,
     filters |-> (<<"f">> :> "F"),
     output |-> 0]

InitInterleave ==
    /\ pc = "new"
    /\ template = <<>>
    /\ src \in SeqsUpTo(InterleaveTokens, MaxRenderTokens)
    /\ loader = "bound"
    /\ tmpl = NoTemplate
    /\ ctx = RenderContext
    /\ expr = <<>>
    /\ res = NoResult
    /\ sinks = <<>>
    /\ calls = <<>>
    /\ ret = NoResult
    /\ written = <<>>
    /\ last = NoStep
    /\ other = NoRender
    /\ alone = NoResult
    /\ turn = 0

\* the state of the render call that is running
Call ==
    [pc |-> pc, ctx |-> ctx, calls |-> calls, ret |-> ret,
     written |-> written, last |-> last]

\* a render call about to be made with the Context c
Pending(c) ==
    [pc |-> "compiled", ctx |-> c, calls |-> <<>>, ret |-> NoResult,
     written |-> <<>>, last |-> NoStep]

\* after the call that ran alone, two calls are about to be made: the
\* first with a Context like that call's, the second with either Context
RenderBoth ==
    /\ turn = 0
    /\ pc \in {"done", "raised"}
    /\ tmpl.st = "ok"
    /\ alone' = ret
    /\ turn' = 1
    /\ pc' = "compiled"
    /\ ctx' = RenderContext
    /\ calls' = <<>>
    /\ ret' = NoResult
    /\ written' = <<>>
    /\ last' = NoStep
    /\ \E c \in {RenderContext, OtherContext} : other' = Pending(c)
    /\ UNCHANGED <<compiler, resolver, sinks>>

\* the call that runs stops between two nodes, or before its first or
\* after its last, and the other call goes on
Switch ==
    /\ turn \in {1, 2}
    /\ calls = <<>> \/ InLoop
    /\ other.pc \in {"compiled", "rendering"}
    /\ turn' = 3 - turn
    /\ other' = Call
    /\ pc' = other.pc
    /\ ctx' = other.ctx
    /\ calls' = other.calls
    /\ ret' = other.ret
    /\ written' = other.written
    /\ last' = other.last
    /\ UNCHANGED <<compiler, resolver, sinks, alone>>

NextInterleave == Next \/ RenderBoth \/ Switch

SpecInterleave == InitInterleave /\ [][NextInterleave]_vars

-----------------------------------------------------------------------------
(* Claims about the compiler *)

\* the tag name of a block token: the \w+ match at the start of its content
TagNameOf(tok) == SubSeq(tok.content, 1, NodenameMatch(tok.content))

RECURSIVE OpenBlocks(_, _, _)
\* the end markers still awaited after the tokens from i on, given the ones
\* awaited before (innermost first): for and if open a block, an end marker
\* closes the innermost block when it is that block's own
OpenBlocks(toks, i, awaited) ==
    IF i > Len(toks) THEN awaited
    ELSE LET tok == toks[i]
             name == IF tok.type = TOK_BLOCK THEN TagNameOf(tok) ELSE <<>>
         IN  CASE name = s_for -> OpenBlocks(toks, i + 1, <<s_endfor>> \o awaited)
               [] name = s_if -> OpenBlocks(toks, i + 1, <<s_endif>> \o awaited)
               [] awaited # <<>> /\ name = Head(awaited) ->
                    OpenBlocks(toks, i + 1, Tail(awaited))
               [] OTHER -> OpenBlocks(toks, i + 1, awaited)

\* some for or if of the source has no matching end marker before its end
Unterminated(toks) == OpenBlocks(toks, 1, <<>>) # <<>>

\* a block token whose tag name is not in the tag registry
UnknownTag(tok) ==
    /\ tok.type = TOK_BLOCK
    /\ NodenameMatch(tok.content) > 0
    /\ TagNameOf(tok) \notin DOMAIN Tags

\* C1: constructing a Template from a source with an unterminated for or if
\* raises; it never completes with a truncated node tree.
C1_UnterminatedRaises ==
    (pc # "new" /\ Unterminated(src)) => pc = "raised"

\* C2: a source with an unknown tag never compiles, and when the compiler
\* stops at a block token whose tag name is not in the registry, the error
\* is a SyntaxError that names the tag.
C2_UnknownTagIsSyntaxError ==
    /\ (pc # "new" /\ \E i \in 1..Len(src) : UnknownTag(src[i]))
          => pc = "raised"
    /\ (pc = "raised" /\ tmpl.pos >= 1 /\ UnknownTag(src[tmpl.pos]))
          => (tmpl.exc = "SyntaxError" /\ tmpl.arg = TagNameOf(src[tmpl.pos]))

\* the include block tokens of a source, by position
Includes(toks) ==
    {i \in 1..Len(toks) :
        toks[i].type = TOK_BLOCK /\ TagNameOf(toks[i]) = s_include}

\* C14: with no loader bound, a source that has an include tag, at any
\* depth, does not compile: the constructor raises at the first include
\* tag, by its assertion, unless it has raised before.
C14_IncludeNeedsLoader ==
    (pc # "new" /\ loader = "None" /\ Includes(src) # {}) =>
       /\ pc = "raised"
       /\ tmpl.pos <= Min(Includes(src))
       /\ tmpl.pos = Min(Includes(src)) => tmpl.exc = "AssertionError"

\* C14's case: the include tag is in the body of a for or an if
C14_Witness ==
    /\ pc = "raised"
    /\ loader = "None"
    /\ tmpl.exc = "AssertionError"
    /\ tmpl.pos > 1
    /\ src[tmpl.pos - 1] \in {t_for, t_if}

RECURSIVE WellNestedFrom(_, _, _)
\* from token i on, every end marker is the one awaited innermost and
\* nothing is awaited at the end
WellNestedFrom(toks, i, awaited) ==
    IF i > Len(toks) THEN awaited = <<>>
    ELSE LET tok == toks[i]
             name == IF tok.type = TOK_BLOCK THEN TagNameOf(tok) ELSE <<>>
         IN  CASE name = s_for -> WellNestedFrom(toks, i + 1, <<s_endfor>> \o awaited)
               [] name = s_if -> WellNestedFrom(toks, i + 1, <<s_endif>> \o awaited)
               [] name \in {s_endfor, s_endif} ->
                    /\ awaited # <<>>
                    /\ name = Head(awaited)
                    /\ WellNestedFrom(toks, i + 1, Tail(awaited))
               [] OTHER -> WellNestedFrom(toks, i + 1, awaited)

WellNested(toks) == WellNestedFrom(toks, 1, <<>>)

\* what a token says: its type and, for a block, the tag name and arguments
Said(tok) ==
    IF tok.type # TOK_BLOCK
    THEN [k |-> tok.type, name |-> <<>>, arg |-> tok.content]
    ELSE [k |-> TOK_BLOCK, name |-> TagNameOf(tok),
          arg |-> Strip(From(tok.content, NodenameMatch(tok.content)))]

\* the tokens of a source that are not comments, as what they say
SaidBy(toks) ==
    LET kept == SelectSeq(toks, LAMBDA tok : tok.type # TOK_COMMENT)
    IN  [i \in 1..Len(kept) |-> Said(kept[i])]

RECURSIVE Written(_)
\* a node list written back as tokens: a For or If node as its opening tag,
\* its body and its end marker, any other node as the one token it was
\* made from; an end marker kept as a node is written as "kept"
Written(nodes) ==
    IF nodes = <<>> THEN <<>>
    ELSE LET node == Head(nodes)
             one == CASE node.cls = "TextTag" ->
                           <<[k |-> TOK_TEXT, name |-> <<>>, arg |-> node.content]>>
                      [] node.cls = "VarTag" ->
                           <<[k |-> TOK_VAR, name |-> <<>>, arg |-> node.content]>>
                      [] node.cls = "ForTag" ->
                           <<[k |-> TOK_BLOCK, name |-> s_for,
                              arg |-> node.argname \o s_in \o node.iterable]>>
                             \o Written(node.nodelist)
                             \o <<[k |-> TOK_BLOCK, name |-> s_endfor, arg |-> <<>>]>>
                      [] node.cls = "IfTag" ->
                           <<[k |-> TOK_BLOCK, name |-> s_if, arg |-> node.condition]>>
                             \o Written(node.nodelist)
                             \o <<[k |-> TOK_BLOCK, name |-> s_endif, arg |-> <<>>]>>
                      [] node.cls = "IncludeTag" ->
                           <<[k |-> TOK_BLOCK, name |-> s_include,
                             arg |-> node.template_name]>>
                      [] node.cls \in {"EndforTag", "EndifTag"} ->
                           <<[k |-> "kept", name |-> NodeName(node),
                             arg |-> node.content]>>
                      [] OTHER -> <<[k |-> TOK_BLOCK, name |-> NodeName(node),
                                    arg |-> node.content]>>
         IN  one \o Written(Tail(nodes))

\* a token that makes the compiler raise by itself
Refused(tok, ldr) ==
    /\ tok.type = TOK_BLOCK
    /\ \/ NodenameMatch(tok.content) = 0
       \/ TagNameOf(tok) \notin DOMAIN Tags
       \/ TagNameOf(tok) = s_for /\ Find(Said(tok).arg, s_in) = -1
       \/ TagNameOf(tok) = s_include /\ ldr = "None"

\* C15: a well-nested source compiles unless one of its tokens is refused,
\* every token is consumed, and the node tree written back as tokens (each
\* body between its opening tag and its own end marker) is the source
\* without its comments: no token is lost, repeated or moved to another
\* body, and no end marker is kept as a node.
C15_WellNestedParse ==
    (pc # "new" /\ WellNested(src)) =>
       IF pc = "compiled"
       THEN /\ tmpl.pos = Len(src)
            /\ Written(tmpl.nodes) = SaidBy(src)
       ELSE \E i \in 1..Len(src) : Refused(src[i], loader)

\* C15's case: an if inside a for, a comment, and a node after the inner
\* end marker that belongs to the outer body
C15_Witness ==
    /\ pc = "compiled"
    /\ src = <<t_for, t_comment, t_if, t_endif, t_text, t_endfor>>
    /\ Len(tmpl.nodes) = 1
    /\ Len(tmpl.nodes[1].nodelist) = 2
    /\ tmpl.nodes[1].nodelist[1].cls = "IfTag"
    /\ tmpl.nodes[1].nodelist[1].nodelist = <<>>
    /\ tmpl.nodes[1].nodelist[2] = TextTag(t_text.content)

RECURSIVE FirstStray(_, _, _)
\* the position of the first end marker, from token i on, that is not the
\* one awaited innermost; 0 when there is none
FirstStray(toks, i, awaited) ==
    IF i > Len(toks) THEN 0
    ELSE LET tok == toks[i]
             name == IF tok.type = TOK_BLOCK THEN TagNameOf(tok) ELSE <<>>
         IN  CASE name = s_for -> FirstStray(toks, i + 1, <<s_endfor>> \o awaited)
               [] name = s_if -> FirstStray(toks, i + 1, <<s_endif>> \o awaited)
               [] name \in {s_endfor, s_endif} ->
                    IF awaited # <<>> /\ name = Head(awaited)
                    THEN FirstStray(toks, i + 1, Tail(awaited))
                    ELSE i
               [] OTHER -> FirstStray(toks, i + 1, awaited)

\* some end marker was kept as a node of the tree
KeptEnd(nodes) ==
    \E i \in 1..Len(Written(nodes)) : Written(nodes)[i].k = "kept"

\* C20: a source with an end marker that does not close the innermost open
\* for or if does not compile, and no compiled tree has an end marker as a
\* node.
C20_StrayEndRejected ==
    /\ (pc # "new" /\ FirstStray(src, 1, <<>>) > 0) => pc = "raised"
    /\ pc = "compiled" => ~KeptEnd(tmpl.nodes)

-----------------------------------------------------------------------------
(* Claims about the resolver *)

\* expr|f1|...|fn: the base expression and the filter names
BaseOf(e) == Head(Split(e, <<"|">>))
FiltersOf(e) == Tail(Split(e, <<"|">>))

RECURSIVE Pipeline(_, _, _)
\* fn(...f2(f1(v))...), from the outside in
Pipeline(names, fl, v) ==
    IF names = <<>> THEN v
    ELSE App(fl[names[Len(names)]],
             Pipeline(SubSeq(names, 1, Len(names) - 1), fl, v))

\* the filter names of e that the mapping fl lacks, by position
UnknownAt(e, fl) == {i \in 1..Len(FiltersOf(e)) : FiltersOf(e)[i] \notin DOMAIN fl}

\* the dotted-path resolution of e's base expression in the Context as it
\* was before the call
BaseResolution == digattr(CtxRoot, BaseOf(expr), None, res.c0)

\* C8: with every filter of expr|f1|...|fn in the mapping, resolve returns
\* fn(...f2(f1(v))...) for the dotted-path resolution v of expr (the default
\* on a miss), each filter called once, in the order written.
C8_FiltersLeftToRight ==
    (pc = "resolved" /\ UnknownAt(expr, res.c0.filters) = {}
       /\ BaseResolution.st = "ok")
      => /\ res.out.st = "ok"
         /\ res.out.v = Pipeline(FiltersOf(expr), res.c0.filters, BaseResolution.v)
         /\ res.out.applied = FiltersOf(expr)

\* C8's case: two different known filters were applied
C8_Witness ==
    /\ pc = "resolved"
    /\ res.out.st = "ok"
    /\ Len(FiltersOf(expr)) = 2
    /\ FiltersOf(expr)[1] # FiltersOf(expr)[2]

\* C9: once the base expression has resolved or missed, a filter name the
\* mapping lacks raises SyntaxError with that name and the whole expression,
\* the filters after it are not called, and no SyntaxError is raised when
\* every filter is known.
C9_UnknownFilterRaises ==
    pc = "resolved" =>
      LET unknown == UnknownAt(expr, res.c0.filters)
      IN  /\ (BaseResolution.st = "ok" /\ unknown # {}) =>
                /\ res.out.st = "raise"
                /\ res.out.exc = "SyntaxError"
                /\ res.out.arg = <<FiltersOf(expr)[Min(unknown)], expr>>
                /\ res.out.applied = SubSeq(FiltersOf(expr), 1, Min(unknown) - 1)
          /\ (res.out.st = "raise" /\ res.out.exc = "SyntaxError") => unknown # {}

\* C9's case: the base expression missed, and a known filter follows the
\* unknown one
C9_Witness ==
    /\ pc = "resolved"
    /\ res.out.st = "raise"
    /\ res.out.exc = "SyntaxError"
    /\ BaseResolution.trace[Len(BaseResolution.trace)].mode = "miss"
    /\ \E i \in UnknownAt(expr, res.c0.filters) :
          /\ i < Len(FiltersOf(expr))
          /\ FiltersOf(expr)[i + 1] \in DOMAIN res.c0.filters

\* the value a step's winning access yields, after the call of a callable
StepValue(e) ==
    LET w == CASE e.mode = "item" -> GetItem(e.obj, e.step, e.c).v
               [] e.mode = "attr" -> GetAttr(e.obj, e.step, e.c).v
               [] OTHER -> GetIndex(e.obj, e.step, e.c).v
    IN  IF Callable(w) THEN Invoke(w, e.c) ELSE [st |-> "ok", v |-> w]

\* C10: digattr takes the steps of the path in order; at each step the
\* item access wins if it succeeds, the attribute access if only the item
\* access fails, the index access if both fail; when all three fail the
\* call returns the default, whatever the steps before yielded, and does
\* not raise.
C10_AccessOrder ==
    pc = "dug" =>
      LET tr == res.out.trace
          steps == Split(expr, <<".">>)
      IN  /\ Len(tr) <= Len(steps)
          /\ \A i \in 1..Len(tr) :
                LET e == tr[i]
                    item == GetItem(e.obj, e.step, e.c).ok
                    attr == GetAttr(e.obj, e.step, e.c).ok
                    index == GetIndex(e.obj, e.step, e.c).ok
                IN  /\ e.step = steps[i]
                    /\ e.obj = IF i = 1 THEN res.obj ELSE StepValue(tr[i - 1]).v
                    /\ e.mode = "item" => item
                    /\ e.mode = "attr" => (~item /\ attr)
                    /\ e.mode = "index" => (~item /\ ~attr /\ index)
                    /\ e.mode = "miss" =>
                          /\ ~item /\ ~attr /\ ~index
                          /\ i = Len(tr)
                          /\ res.out.st = "ok"
                          /\ res.out.v = res.default
                    /\ (e.mode # "miss" /\ i = Len(tr) /\ res.out.st = "ok") =>
                          (Len(tr) = Len(steps) /\ res.out.v = StepValue(e).v)
          /\ res.out.st = "raise" =>
                (tr[Len(tr)].mode # "miss" /\ StepValue(tr[Len(tr)]).st = "raise")

\* C10's case: after an item and an index access succeeded, a step missed
\* and the call returned a default that is not None
C10_Witness ==
    /\ pc = "dug"
    /\ res.default = StrV(<<"d">>)
    /\ res.out.st = "ok"
    /\ res.out.v = res.default
    /\ Len(res.out.trace) = 3
    /\ res.out.trace[1].mode = "item"
    /\ res.out.trace[2].mode = "index"
    /\ res.out.trace[3].mode = "miss"

-----------------------------------------------------------------------------
(* Claims about the renderer *)

\* C3: the string render returns is everything the nodes wrote, in the
\* order they wrote it.
C3_OneSink ==
    pc = "done" => ret.v = written

\* whether an if condition begins with the keyword not, and the expression
\* that is left to resolve
CondNot(condition) == Strip(SplitOnce(condition, <<" ">>)[1]) = s_not
CondExpr(condition) ==
    IF CondNot(condition) /\ Len(SplitOnce(condition, <<" ">>)) > 1
    THEN Strip(SplitOnce(condition, <<" ">>)[2])
    ELSE condition

\* the expression a node resolves
ExprOf(cls, e) == IF cls = "IfTag" THEN CondExpr(e) ELSE e

\* the dotted path of e cannot be resolved in c: some step of it fails
Unresolved(c, e) ==
    LET dug == digattr(CtxRoot, BaseOf(e), None, c)
    IN  /\ dug.st = "ok"
        /\ dug.trace # <<>>
        /\ dug.trace[Len(dug.trace)].mode = "miss"

\* C4: a Variable node, an If condition or a For iterable whose variable
\* cannot be resolved (and whose filters are all known) does not make render
\* raise.
C4_UnresolvedNeverRaises ==
    (pc = "raised" /\ last.ev = "raise" /\ last.expr # <<>>)
      => ~ /\ Unresolved(last.c0, ExprOf(last.cls, last.expr))
           /\ UnknownAt(ExprOf(last.cls, last.expr), last.c0.filters) = {}

\* C5: when a For node has finished, the loop variable and loopcounter
\* resolve as they did before it, and the frames are the ones there were
\* before it, unchanged.
C5_LoopScopeIsolated ==
    last.ev = "forexit" =>
      /\ \A name \in {last.node.argname, s_loopcounter} :
            Context_getitem(ctx, name)
              = Context_getitem([ctx EXCEPT !.stack = last.stack0], name)
      /\ ctx.stack = last.stack0

\* the For call whose body is being rendered, innermost first
ForCalls == SelectSeq(calls, LAMBDA a : a.k = "For")

\* C6: while the k-th pass of a For node's body is rendered, loopcounter
\* resolves to k and the loop variable to the k-th element; a For node that
\* has finished has made one pass per element, in order; over no element it
\* has written nothing and the frames are the ones there were before it.
C6_LoopPasses ==
    /\ (pc = "rendering" /\ calls # <<>> /\ Top.k # "For" /\ ForCalls # <<>>) =>
          LET loop == Head(ForCalls)
          IN  /\ Context_getitem(ctx, s_loopcounter) = Hit(IntV(loop.idx - 1))
              /\ Context_getitem(ctx, loop.node.argname) = Hit(loop.items[loop.idx])
    /\ last.ev = "forexit" =>
          /\ Len(last.passes) = Len(last.items)
          /\ \A k \in 1..Len(last.passes) :
                /\ last.passes[k][s_loopcounter] = IntV(k - 1)
                /\ last.passes[k][last.node.argname] = last.items[k]
          /\ last.items = <<>> =>
                (written = last.written0 /\ ctx.stack = last.stack0)

\* C7: an If node renders its body exactly when the leading not XOR the
\* truth of what the rest of the condition resolves to is true, and the
\* test leaves the scope frames as they were.
C7_IfTest ==
    last.ev = "if" =>
      /\ last.taken = (CondNot(last.expr)
                         # Truthy(Context_resolve(last.c0, CondExpr(last.expr)).v))
      /\ ctx.stack = last.c0.stack

-----------------------------------------------------------------------------
(* Claims about the tokeniser *)

\* the text of the source a token was made from
Matched(t) == SubSeq(template, t.start, t.end)

\* C11: the tokens come in source order and their spans follow one another
\* from the first character of the source to the last, so that the Text
\* tokens' contents and the other tokens' matched texts, put together, are
\* the source; a Text token's content is its span verbatim and is not
\* empty; another token's span is its delimiters around its content and
\* whitespace.
C11_TokeniserLossless ==
    pc = "tokenised" =>
      /\ (res.out = <<>>) = (template = <<>>)
      /\ res.out # <<>> =>
            (res.out[1].start = 1 /\ res.out[Len(res.out)].end = Len(template))
      /\ \A i \in 1..(Len(res.out) - 1) :
            res.out[i + 1].start = res.out[i].end + 1
      /\ \A i \in 1..Len(res.out) :
            /\ res.out[i].start <= res.out[i].end
            /\ res.out[i].tok.type = TOK_TEXT =>
                  res.out[i].tok.content = Matched(res.out[i])
            /\ res.out[i].tok.type # TOK_TEXT =>
                  /\ At(template, res.out[i].start,
                        tag_re[res.out[i].tok.type].open)
                  /\ At(template, res.out[i].end - 1,
                        tag_re[res.out[i].tok.type].close)
                  /\ res.out[i].tok.content
                       = Strip(SubSeq(template, res.out[i].start + 2,
                                      res.out[i].end - 2))

\* C11's case: text before a tag and text after it
C11_Witness ==
    /\ pc = "tokenised"
    /\ Len(res.out) = 3
    /\ res.out[1].tok.type = TOK_TEXT
    /\ res.out[2].tok.type = TOK_VAR
    /\ res.out[3].tok.type = TOK_TEXT

-----------------------------------------------------------------------------
(* Claims about interleaved render calls *)

\* the first of the two calls, whether it runs or waits
FirstCall == IF turn = 1 THEN Call ELSE other

\* C12: of two render calls on one Template, interleaved step by step,
\* each with its own Context, the one whose Context is like that of the
\* call that ran alone returns or raises what that call did; and the node
\* tree stays what the constructor made.
C12_InterleavedRenders ==
    /\ (turn # 0 /\ FirstCall.pc \in {"done", "raised"}) => FirstCall.ret = alone
    /\ tmpl # NoTemplate => tmpl = Template_init(src, loader)

\* C12's case: the first call has returned what it wrote while the second
\* call, begun before that, waits in the middle of its own output
C12_Witness ==
    /\ turn = 1
    /\ pc = "done"
    /\ ret.v # <<>>
    /\ other.pc = "rendering"
    /\ other.written # <<>>
    /\ other.calls # <<>>
    /\ Len(sinks) > 3

-----------------------------------------------------------------------------
(* Claims about the Include node *)

\* the Include calls in progress, innermost first, and the calls begun
\* inside the innermost
IncludeCalls == SelectSeq(calls, LAMBDA a : a.k = "Include")
InsideInclude ==
    SubSeq(calls, 1,
           (CHOOSE i \in 1..Len(calls) :
               /\ calls[i].k = "Include"
               /\ \A j \in 1..(i - 1) : calls[j].k # "Include") - 1)

\* the names some frame of a stack defines
Visible(stack) == UNION {DOMAIN stack[i] : i \in 1..Len(stack)}

\* C13: an Include node pushes one new frame and renders the loader's
\* template for its name with the same Context; while that template is
\* rendered outside any For node of its own, every name visible at the
\* Include resolves as it did there; when the Include node has returned,
\* the frames are the ones there were before it.
C13_IncludeScope ==
    /\ last.ev = "include" =>
          /\ ctx.stack = <<EmptyFrame>> \o last.stack0
          /\ Top.nodes = Loader_getitem(last.node.template_name).nodes
    /\ (pc = "rendering" /\ IncludeCalls # <<>>
          /\ \A j \in 1..Len(InsideInclude) : InsideInclude[j].k # "For") =>
          \A name \in Visible(Head(IncludeCalls).stack0) :
             Context_getitem(ctx, name)
               = Context_getitem([ctx EXCEPT !.stack = Head(IncludeCalls).stack0],
                                 name)
    /\ last.ev = "includeexit" => ctx.stack = last.stack0

-----------------------------------------------------------------------------
(* Claims about the scope frames *)

\* the names some frame of a stack defines
Defined(stack) == UNION {DOMAIN stack[i] : i \in 1..Len(stack)}

\* the innermost frame of a stack that defines a name
Innermost(stack, name) ==
    Min({i \in 1..Len(stack) : name \in DOMAIN stack[i]})

\* C16: a name resolves to its value in the innermost frame that defines
\* it; a pass of a For node writes loopcounter and the loop variable to the
\* innermost frame and to no other; while the body of a For node is
\* rendered, and again after a For node nested in that body has finished,
\* both names resolve to the values of that node's current pass.
C16_InnermostFrame ==
    /\ \A name \in Defined(ctx.stack) :
          Context_getitem(ctx, name)
            = Hit(ctx.stack[Innermost(ctx.stack, name)][name])
    /\ last.ev = "pass" =>
          /\ Tail(ctx.stack) = Tail(last.stack0)
          /\ \A name \in DOMAIN Head(last.stack0) \ {s_loopcounter, Head(ForCalls).node.argname} :
                Head(ctx.stack)[name] = Head(last.stack0)[name]
    /\ (pc = "rendering" /\ ForCalls # <<>>
          /\ (last.ev = "forexit" \/ Top.k = "Nodelist")) =>
          LET loop == Head(ForCalls)
          IN  /\ Context_getitem(ctx, s_loopcounter) = Hit(IntV(loop.idx - 1))
              /\ Context_getitem(ctx, loop.node.argname)
                    = Hit(loop.items[loop.idx])

\* the For and Include nodes being rendered
Scoped == SelectSeq(calls, LAMBDA a : a.k \in {"For", "Include"})

\* C17: during a render the scope stack is the caller's frames under one
\* frame for each For and Include node being rendered; the frame a For or
\* Include node removes when it finishes is the one it pushed; and when
\* render has returned the stack is the caller's frames, unchanged.
C17_FramesLIFO ==
    /\ pc = "rendering" =>
          /\ Len(ctx.stack) = Len(RenderContext.stack) + Len(Scoped)
          /\ SubSeq(ctx.stack, Len(Scoped) + 1, Len(ctx.stack))
                = RenderContext.stack
    /\ (pc = "rendering" /\ last.ev \in {"forexit", "includeexit"}) =>
          ctx.stack = last.stack0
    /\ pc = "done" => ctx.stack = RenderContext.stack

-----------------------------------------------------------------------------
(* Claims about resolving during a render *)

\* the last step resolved a Variable node's expression or an If condition
Resolved ==
    \/ last.ev \in {"var", "if"}
    \/ last.ev = "raise" /\ last.cls \in {"VarTag", "IfTag"}

\* the expression that step resolved
ResolvedExpr ==
    IF last.ev = "var" THEN last.expr ELSE ExprOf(last.cls, last.expr)

\* the first path step of e is a Context member's name that no frame of c
\* defines
MemberFirst(e, c) ==
    LET first == Head(Split(BaseOf(e), <<".">>))
    IN  first \in ContextMembers /\ ~Context_getitem(c, first).ok

\* C18: rendering a Variable node or testing an If condition leaves the
\* scope frames and the filter mapping as they were; and when the first
\* path step is a Context member's name that no frame defines, the
\* expression resolves to the default (with its filters applied), raising
\* only for an unknown filter.
C18_ResolveReadOnly ==
    Resolved =>
       /\ ctx.stack = last.c0.stack
       /\ ctx.filters = last.c0.filters
       /\ MemberFirst(ResolvedExpr, last.c0) =>
             LET r == Context_resolve(last.c0, ResolvedExpr)
             IN  IF r.st = "ok"
                 THEN r.v = Pipeline(FiltersOf(ResolvedExpr), last.c0.filters,
                                     None)
                 ELSE UnknownAt(ResolvedExpr, last.c0.filters) # {}

-----------------------------------------------------------------------------
(* Claims about a render that raises *)

\* no node of the source, or of the template it includes, names a Context
\* member
NoMemberNamed(toks) ==
    \A i \in 1..Len(toks) : toks[i] \notin {r_pop, r_push, r_ifpop, r_includepop}

\* C19: when render raises (here in a template that names no Context
\* member: an unknown filter, an iterable that cannot be iterated, a
\* template the loader does not find), the scope stack the caller is left
\* with is the one it passed in.
C19_RestoredOnRaise ==
    (pc = "raised" /\ last.ev = "raise" /\ NoMemberNamed(src)) =>
       ctx.stack = RenderContext.stack

=========================================================================
